---------------------------- MODULE Spec2Model ----------------------------
(***************************************************************************)
(* Model of the background-refresh subsystem of the Alfred-Issues workflow *)
(*   src/src/issues.py  search_for_issues_cached  (foreground query)       *)
(*   src/src/update.py  main / get_all_issues     (background job)         *)
(*   src/src/jira.py    Client.get_total          (foreground request)     *)
(* The cache store, the freshness test and the process supervisor belong   *)
(* to the bundled `workflow` library, which is not part of the sources;    *)
(* they are modelled from sections 4.1, 4.2 and 6 of the specification.    *)
(***************************************************************************)
EXTENDS Integers, Sequences, FiniteSets, TLC

VARIABLES
    now,      \* wall clock (seconds)
    cache,    \* CacheStore: project key -> entry
    pidfile,  \* recorded process identity per job name (0 = none)
    jobs,     \* background processes, by pid
    qs,       \* foreground processes running search_for_issues_cached
    nq,       \* number of foreground queries started so far
    recent,   \* RecencyList: the stored list 'recent' (issue keys)
    gone,     \* issue keys that no longer resolve upstream
    rs,       \* foreground processes running add_recent / search_for_recent
    nr        \* number of recency-list operations started so far

vars == <<now, cache, pidfile, jobs, qs, nq, recent, gone, rs, nr>>

-----------------------------------------------------------------------------
(* Bounds of the model *)

MaxJobs == 2        \* pids available to spawned background processes
MaxQueries == 2     \* foreground queries started in one behaviour
MaxFetchTotal == 5  \* largest total drawn for a stand-alone fetch
MaxFetchPage == 3   \* largest page size drawn for a stand-alone fetch
MaxIssueKeys == 10  \* issue keys that can be touched
MaxTouches == 3     \* add_recent calls made one after the other
MaxRecentOps == 2   \* recency-list operations run by concurrent processes

(* Program constants *)

DEFAULT_MAX_AGE == 600
DefaultMaxResults == 50
DefaultJobMaxAge == 600
MaxWorkers == 4

Keys == {"A", "B"}
Procs == {1, 2}
Pids == 1..MaxJobs

\* totals the remote reports to get_total
RemoteTotals == {2}

\* instants the clock can jump to
TimePoints == {1, DEFAULT_MAX_AGE - 1, DEFAULT_MAX_AGE}

Min(a, b) == IF a < b THEN a ELSE b

-----------------------------------------------------------------------------
(* CacheStore and FreshnessPolicy (workflow library; specification 4.1, 6) *)

NoEntry == [has |-> FALSE, value |-> <<>>, stored_at |-> 0]

\* an entry an earlier refresh left behind at time 0
OldEntry == [has |-> TRUE, value |-> <<1>>, stored_at |-> 0]

\* age = now - stored_at of an entry; 0 stands for "no entry" at the call site
cached_data_age(k) == IF cache[k].has THEN now - cache[k].stored_at ELSE 0

\* Fresh iff an entry exists and age < max_age (boundary is Stale)
cached_data_fresh(k, max_age) ==
    cache[k].has /\ (now - cache[k].stored_at) < max_age

\* get(key): the stored value, nothing when there is no entry
cached_data_get(k) == IF cache[k].has THEN cache[k].value ELSE <<>>

\* set(key, value): replaces the value wholesale and resets stored_at to now
cache_data(k, v) ==
    [cache EXCEPT ![k] = [has |-> TRUE, value |-> v, stored_at |-> now]]

-----------------------------------------------------------------------------
(* JobSupervisor (workflow.background; specification 4.2) *)

\* a process slot: st is none (never started), start (main not yet run),
\* fetch (inside get_all_issues) or exit; reqs are the submitted startAt
\* values, resp their outcomes (none, ok, fail), wait the request get_issues
\* waits for next, data the pages joined so far, first the request that
\* completed first, code the exit status
NoJob ==
    [st |-> "none", key |-> "-", total |-> 0, max_results |-> 0, max_age |-> 0,
     reqs |-> <<>>, resp |-> <<>>, wait |-> 0, data |-> <<>>, first |-> 0,
     code |-> 0]

Alive(j) == jobs[j].st \in {"start", "fetch"}

\* the job name search_for_issues_cached hands to run_in_background / is_running
JobName(k) == "update"

JobNames == {JobName(k) : k \in Keys}

\* variant: a recorded process counts as running, alive or not
is_running_Recorded(name) == pidfile[name] # 0

\* is_alive: the previously recorded process still lives
is_running(name) == pidfile[name] # 0 /\ Alive(pidfile[name])

FreePids == {j \in Pids : jobs[j].st = "none"}

\* the process image started by the spawn: update.py <key> --total=<total>
NewJob(k, total) ==
    [NoJob EXCEPT !.st = "start", !.key = k, !.total = total,
                  !.max_results = DefaultMaxResults,
                  !.max_age = DefaultJobMaxAge]

-----------------------------------------------------------------------------
(* PaginatedFetcher: ConcurrentJiraClient.get_all_issues (update.py 27-65) *)

\* variant: a page is also requested at next_at = total
NextPageWanted_Inclusive(next_at, total) == next_at <= total

\* `if next_at < total:` - is a further page requested
NextPageWanted(next_at, total) == next_at < total

\* the startAt values get_issues submits, in submission order: one request
\* for start_at, then the recursive call for next_at
RECURSIVE get_issues_requests(_, _, _)
get_issues_requests(start_at, total, max_results) ==
    LET next_at == start_at + max_results
    IN  IF NextPageWanted(next_at, total)
        THEN <<start_at>> \o get_issues_requests(next_at, total, max_results)
        ELSE <<start_at>>

\* the records the remote returns for startAt/maxResults when the project
\* holds `count` issues, numbered 1..count (parse_json_cb keeps their order)
Page(start_at, max_results, count) ==
    LET n == Min(start_at + max_results, count) - start_at
    IN  IF n > 0 THEN [i \in 1..n |-> start_at + i] ELSE <<>>

\* variant: the awaited page is put behind the pages already joined
JoinPage_Appended(page, data) == data \o page

\* `future.result().data + data`
JoinPage(page, data) == page \o data

\* variant: a failed request is taken for an answered one
ResultRaises_Swallowed(r) == FALSE

\* future.result() raises when the request failed
ResultRaises(r) == r = "fail"

\* the ThreadPoolExecutor runs request i once fewer than max_workers of the
\* requests submitted before it are unfinished
Running(j, i) ==
    /\ jobs[j].resp[i] = "none"
    /\ Cardinality({h \in 1..(i - 1) : jobs[j].resp[h] = "none"}) < MaxWorkers

Exited(j, c) == [NoJob EXCEPT !.st = "exit", !.code = c]

\* update.py main: wf.cached_data(project_key, <fetch>, max_age=args.max_age)
\* returns the stored value while it is younger than max_age, and otherwise
\* calls get_all_issues, which submits every page request before it waits
JobMain(j) ==
    /\ jobs[j].st = "start"
    /\ IF cached_data_fresh(jobs[j].key, jobs[j].max_age)
       THEN jobs' = [jobs EXCEPT ![j] = Exited(j, 0)]
       ELSE LET reqs == get_issues_requests(0, jobs[j].total, jobs[j].max_results)
            IN  jobs' = [jobs EXCEPT ![j].st = "fetch",
                                     ![j].reqs = reqs,
                                     ![j].resp = [i \in 1..Len(reqs) |-> "none"],
                                     ![j].wait = Len(reqs)]
    /\ UNCHANGED <<now, cache, pidfile, qs, nq, recent, gone, rs, nr>>

\* a page request completes, with a response or with an error
JobRespond(j, i, r) ==
    /\ jobs[j].st = "fetch"
    /\ i \in 1..Len(jobs[j].reqs)
    /\ Running(j, i)
    /\ jobs' = [jobs EXCEPT ![j].resp[i] = r,
                            ![j].first = IF jobs[j].first = 0 THEN i ELSE @]
    /\ UNCHANGED <<now, cache, pidfile, qs, nq, recent, gone, rs, nr>>

\* get_issues unwinds: the innermost call waits for the last page, each
\* caller then waits for its own page and puts it in front of the rest; an
\* exception leaves main through wf.run, which makes the exit status 1
JobAwait(j) ==
    LET w == jobs[j].wait
    IN  /\ jobs[j].st = "fetch"
        /\ w >= 1
        /\ jobs[j].resp[w] # "none"
        /\ IF ResultRaises(jobs[j].resp[w])
           THEN jobs' = [jobs EXCEPT ![j] = Exited(j, 1)]
           ELSE jobs' = [jobs EXCEPT
                    ![j].data = JoinPage(Page(jobs[j].reqs[w], jobs[j].max_results,
                                              jobs[j].total), @),
                    ![j].wait = w - 1]
        /\ UNCHANGED <<now, cache, pidfile, qs, nq, recent, gone, rs, nr>>

\* get_all_issues returned: cached_data stores the list and main ends
JobCommit(j) ==
    /\ jobs[j].st = "fetch"
    /\ jobs[j].wait = 0
    /\ cache' = cache_data(jobs[j].key, jobs[j].data)
    /\ jobs' = [jobs EXCEPT ![j] = Exited(j, 0)]
    /\ UNCHANGED <<now, pidfile, qs, nq, recent, gone, rs, nr>>

\* the process dies before main has ended (killed, or the machine goes down)
JobCrash(j) ==
    /\ Alive(j)
    /\ jobs' = [jobs EXCEPT ![j] = Exited(j, -9)]
    /\ UNCHANGED <<now, cache, pidfile, qs, nq, recent, gone, rs, nr>>

-----------------------------------------------------------------------------
(* ForegroundQuery: search_for_issues_cached (issues.py 79-111) *)

\* FreshnessPolicy.evaluate of the entry as it is now (specification 4.1)
Evaluate(k) ==
    IF ~cache[k].has THEN "Missing"
    ELSE IF now - cache[k].stored_at < DEFAULT_MAX_AGE THEN "Fresh" ELSE "Stale"

\* `is_cached = wf.cached_data_age(project_key) > 0`
is_cached(k) == cached_data_age(k) > 0

\* variant: the update is started whatever the age of the entry
NeedsUpdate_Always(k) == TRUE

\* variant: the update is started only for a project without an entry
NeedsUpdate_MissingOnly(k) == ~cache[k].has

\* `if not wf.cached_data_fresh(project_key, max_age=DEFAULT_MAX_AGE):`
NeedsUpdate(k) == ~cached_data_fresh(k, DEFAULT_MAX_AGE)

\* how search_for_issues_cached treats the entry of k: not cached, to be
\* updated, or cached and left alone
Classify(k) ==
    IF ~is_cached(k) THEN "Missing"
    ELSE IF NeedsUpdate(k) THEN "Stale" ELSE "Fresh"

\* variant: the active-project notice takes precedence
Notice_CachedFirst(running, cached) ==
    IF cached THEN "active" ELSE IF running THEN "updating" ELSE "none"

\* lines 96-99: the notice put in front of the issues
Notice(running, cached) ==
    IF running THEN "updating" ELSE IF cached THEN "active" ELSE "none"

\* a foreground process: is_cached and total are the locals of the call,
\* status and issues its output; found, jobFound, spawned and net record
\* what it found when it began, how many processes it started and how many
\* network requests it sent
IdleQ ==
    [pc |-> "idle", key |-> "-", is_cached |-> FALSE, total |-> 0,
     found |-> "-", jobFound |-> FALSE, spawned |-> 0, net |-> 0,
     status |-> "-", issues |-> <<>>]

\* lines 81-84: a foreground process (a new one once the last has ended)
\* starts the query for project k; found and jobFound remember the state it
\* found
Query_Enter(p, k) ==
    /\ qs[p].pc \in {"idle", "done", "failed"}
    /\ qs' = [qs EXCEPT ![p] =
                [IdleQ EXCEPT !.pc = IF NeedsUpdate(k) THEN "total" ELSE "notify",
                              !.key = k,
                              !.is_cached = is_cached(k),
                              !.found = Evaluate(k),
                              !.jobFound = is_running(JobName(k))]]
    /\ UNCHANGED <<now, cache, pidfile, jobs, recent, gone, rs, nr>>

Query_Begin(p, k) ==
    /\ nq < MaxQueries
    /\ Query_Enter(p, k)
    /\ nq' = nq + 1

\* lines 86-87: jira.get_total sends a search request and waits for the answer
Query_GetTotal(p, t) ==
    /\ qs[p].pc = "total"
    /\ qs' = [qs EXCEPT ![p].pc = "check", ![p].total = t, ![p].net = @ + 1]
    /\ UNCHANGED <<now, cache, pidfile, jobs, nq, recent, gone, rs, nr>>

\* the request fails: raise_for_status raises and the query ends without output
Query_GetTotalFails(p) ==
    /\ qs[p].pc = "total"
    /\ qs' = [qs EXCEPT ![p].pc = "failed", ![p].net = @ + 1]
    /\ UNCHANGED <<now, cache, pidfile, jobs, nq, recent, gone, rs, nr>>

\* variant: the process is started without asking whether the job is alive
Query_Check_NoProbe(p) ==
    /\ qs[p].pc = "check"
    /\ qs' = [qs EXCEPT ![p].pc = "spawn"]
    /\ UNCHANGED <<now, cache, pidfile, jobs, nq, recent, gone, rs, nr>>

\* line 93, run_in_background: nothing to do when the named job is alive
Query_Check(p) ==
    /\ qs[p].pc = "check"
    /\ qs' = [qs EXCEPT ![p].pc =
                IF is_running(JobName(qs[p].key)) THEN "notify" ELSE "spawn"]
    /\ UNCHANGED <<now, cache, pidfile, jobs, nq, recent, gone, rs, nr>>

\* line 93, run_in_background: start the detached process and record it
Query_Spawn(p) ==
    /\ qs[p].pc = "spawn"
    /\ FreePids # {}
    /\ LET j == CHOOSE x \in FreePids : \A y \in FreePids : x <= y
       IN  /\ jobs' = [jobs EXCEPT ![j] = NewJob(qs[p].key, qs[p].total)]
           /\ pidfile' = [pidfile EXCEPT ![JobName(qs[p].key)] = j]
    /\ qs' = [qs EXCEPT ![p].pc = "notify", ![p].spawned = @ + 1]
    /\ UNCHANGED <<now, cache, nq, recent, gone, rs, nr>>

\* the process could not be started: logged, the query goes on
Query_SpawnFails(p) ==
    /\ qs[p].pc = "spawn"
    /\ qs' = [qs EXCEPT ![p].pc = "notify"]
    /\ UNCHANGED <<now, cache, pidfile, jobs, nq, recent, gone, rs, nr>>

\* lines 96-111: the notice, then the cached issues (no filter query)
Query_Notify(p) ==
    /\ qs[p].pc = "notify"
    /\ qs' = [qs EXCEPT ![p].pc = "done",
                        ![p].status = Notice(is_running(JobName(qs[p].key)),
                                             qs[p].is_cached),
                        ![p].issues = cached_data_get(qs[p].key)]
    /\ UNCHANGED <<now, cache, pidfile, jobs, nq, recent, gone, rs, nr>>

\* time passes
Tick(t) ==
    /\ t \in TimePoints
    /\ t > now
    /\ now' = t
    /\ UNCHANGED <<cache, pidfile, jobs, qs, nq, recent, gone, rs, nr>>

-----------------------------------------------------------------------------
(* RecencyList: get_recent, add_recent, search_for_recent                  *)
(* (issues.py 18-34, 144-166; jira.py 157-185)                             *)

\* `if len(recent) > 9:`
Capacity == 9

IssueKeys == 1..MaxIssueKeys

Range(L) == {L[i] : i \in 1..Len(L)}

\* `issue_key in recent`
Contains(L, k) == \E i \in 1..Len(L) : L[i] = k

\* list.index: the position of the first occurrence
Index(L, k) == CHOOSE i \in 1..Len(L) : L[i] = k /\ \A j \in 1..(i - 1) : L[j] # k

\* variant: the key is left where it was
Remove_Nothing(L, k) == L

\* list.remove: drops the first occurrence
Remove(L, k) ==
    LET i == Index(L, k)
    IN  SubSeq(L, 1, i - 1) \o SubSeq(L, i + 1, Len(L))

\* variant: the list is never cut
TooLong_Never(L) == FALSE

\* `if len(recent) > 9:`
TooLong(L) == Len(L) > Capacity

\* list.pop: drops the last element
Pop(L) == SubSeq(L, 1, Len(L) - 1)

\* add_recent, from the list it has read to the list it stores
add_recent(L, issue_key) ==
    LET removed  == IF Contains(L, issue_key) THEN Remove(L, issue_key) ELSE L
        inserted == <<issue_key>> \o removed
    IN  IF TooLong(inserted) THEN Pop(inserted) ELSE inserted

\* Client.get_issue: None for an issue that does not exist (404)
get_issue(k) == k \notin gone

\* the bulk search `key in (k1,k2,...)` is answered 400 when one of the keys
\* does not exist, and when the list is empty (`key in ()` is no JQL; the
\* caller guards the empty list at issues.py:148)
BadRequest(keys) == keys = <<>> \/ \E i \in 1..Len(keys) : ~get_issue(keys[i])

\* the issues of a bulk search come in the remote's order (ascending key),
\* not in the order of the request
RemoteOrder(keys) ==
    LET S == Range(keys)
    IN  [i \in 1..Cardinality(S) |->
            CHOOSE x \in S : Cardinality({y \in S : y < x}) = i - 1]

\* sorted(recent, key=lambda issue: recent_keys.index(issue['key']))
SortedByIndex(found, recent_keys) ==
    LET S == Range(found)
    IN  [i \in 1..Cardinality(S) |->
            CHOOSE x \in S :
                Cardinality({y \in S : Index(recent_keys, y) < Index(recent_keys, x)})
                    = i - 1]

IdleR ==
    [pc |-> "idle", op |-> "none", key |-> 0,
     read |-> <<>>, valid |-> <<>>, found |-> <<>>, out |-> <<>>]

\* add_recent: `recent = get_recent()`
AddRecent_Read(p, k) ==
    /\ rs[p].pc \in {"idle", "done", "failed"}
    /\ rs' = [rs EXCEPT ![p] = [IdleR EXCEPT !.pc = "write", !.op = "add",
                                             !.key = k, !.read = recent]]
    /\ nr' = nr + 1
    /\ UNCHANGED <<now, cache, pidfile, jobs, qs, nq, recent, gone>>

\* add_recent: remove, insert, pop, `wf.store_data('recent', recent)`
AddRecent_Write(p) ==
    /\ rs[p].pc = "write"
    /\ recent' = add_recent(rs[p].read, rs[p].key)
    /\ rs' = [rs EXCEPT ![p].pc = "done"]
    /\ UNCHANGED <<now, cache, pidfile, jobs, qs, nq, gone, nr>>

\* search_for_recent: `recent_keys = get_recent()`; no request for no keys
Search_Read(p) ==
    /\ rs[p].pc \in {"idle", "done", "failed"}
    /\ rs' = [rs EXCEPT ![p] =
                [IdleR EXCEPT !.pc = IF Len(recent) > 0 THEN "bulk" ELSE "sort",
                              !.op = "search", !.read = recent]]
    /\ nr' = nr + 1
    /\ UNCHANGED <<now, cache, pidfile, jobs, qs, nq, recent, gone>>

\* Client.get_issues(issue_keys): the bulk search and its answer
Search_Bulk(p) ==
    /\ rs[p].pc = "bulk"
    /\ rs' = [rs EXCEPT ![p] =
                IF BadRequest(rs[p].read)
                THEN [@ EXCEPT !.pc = "filter"]
                ELSE [@ EXCEPT !.pc = "sort", !.found = RemoteOrder(rs[p].read)]]
    /\ UNCHANGED <<now, cache, pidfile, jobs, qs, nq, recent, gone, nr>>

\* Client.get_issues: `valid_keys = [k for k in issue_keys if self.get_issue(k)]`
Search_Filter(p) ==
    /\ rs[p].pc = "filter"
    /\ rs' = [rs EXCEPT ![p].pc = "retry",
                        ![p].valid = SelectSeq(rs[p].read, get_issue)]
    /\ UNCHANGED <<now, cache, pidfile, jobs, qs, nq, recent, gone, nr>>

\* Client.get_issues(valid_keys, retrying=True): a second 400 is raised
Search_Retry(p) ==
    /\ rs[p].pc = "retry"
    /\ rs' = [rs EXCEPT ![p] =
                IF BadRequest(rs[p].valid)
                THEN [@ EXCEPT !.pc = "failed"]
                ELSE [@ EXCEPT !.pc = "sort", !.found = RemoteOrder(rs[p].valid)]]
    /\ UNCHANGED <<now, cache, pidfile, jobs, qs, nq, recent, gone, nr>>

\* search_for_recent: sort, store the valid keys when some issue is missing
Search_Store(p) ==
    /\ rs[p].pc = "sort"
    /\ LET issues == SortedByIndex(rs[p].found, rs[p].read)
       IN  /\ recent' = IF Len(rs[p].read) # Len(rs[p].found) THEN issues ELSE recent
           /\ rs' = [rs EXCEPT ![p].pc = "done", ![p].out = issues]
    /\ UNCHANGED <<now, cache, pidfile, jobs, qs, nq, gone, nr>>

SearchStep(p) ==
    \/ Search_Bulk(p)
    \/ Search_Filter(p)
    \/ Search_Retry(p)
    \/ Search_Store(p)

\* no recency-list operation under way
RecencyIdle ==
    /\ recent = <<>>
    /\ gone = {}
    /\ rs = [p \in Procs |-> IdleR]
    /\ nr = 0

\* no query and no job under way
WorkflowIdle ==
    /\ now = 1
    /\ cache = [k \in Keys |-> NoEntry]
    /\ pidfile = [n \in JobNames |-> 0]
    /\ jobs = [j \in Pids |-> NoJob]
    /\ qs = [p \in Procs |-> IdleQ]
    /\ nq = 0

-----------------------------------------------------------------------------
(* The workflow: foreground processes, background jobs, the clock *)

Init ==
    /\ now = 1
    /\ cache \in [Keys -> {NoEntry, OldEntry}]
    /\ pidfile = [n \in JobNames |-> 0]
    /\ jobs = [j \in Pids |-> NoJob]
    /\ qs = [p \in Procs |-> IdleQ]
    /\ nq = 0
    /\ RecencyIdle

JobStep ==
    \E j \in Pids :
        \/ JobMain(j)
        \/ \E i \in 1..(MaxFetchTotal + 1), r \in {"ok", "fail"} : JobRespond(j, i, r)
        \/ JobAwait(j)
        \/ JobCommit(j)
        \/ JobCrash(j)

QueryStep ==
    \E p \in Procs :
        \/ \E t \in RemoteTotals : Query_GetTotal(p, t)
        \/ Query_GetTotalFails(p)
        \/ Query_Check(p)
        \/ Query_Spawn(p)
        \/ Query_SpawnFails(p)
        \/ Query_Notify(p)

Next ==
    \/ \E p \in Procs, k \in Keys : Query_Begin(p, k)
    \/ QueryStep
    \/ JobStep
    \/ \E t \in TimePoints : Tick(t)

Spec == Init /\ [][Next]_vars

-----------------------------------------------------------------------------
(* Foreground queries made one after the other: a query starts only when   *)
(* no other query is under way                                             *)

Query_BeginSeq(p, k) ==
    /\ \A o \in Procs : qs[o].pc \in {"idle", "done", "failed"}
    /\ Query_Begin(p, k)

NextSeq ==
    \/ \E p \in Procs, k \in Keys : Query_BeginSeq(p, k)
    \/ QueryStep
    \/ JobStep
    \/ \E t \in TimePoints : Tick(t)

SpecSeq == Init /\ [][NextSeq]_vars

-----------------------------------------------------------------------------
(* One refresh job on its own: update.py started for project "A" with any  *)
(* total and page size, over an empty or an outdated cache entry           *)

FetchInputs ==
    {<<t, m>> : t \in 0..MaxFetchTotal, m \in 1..MaxFetchPage} \cup {<<125, 50>>}

\* --max-age: the default, and one under which an entry of age 600 is young
FetchMaxAges == {DefaultJobMaxAge, 2 * DefaultJobMaxAge}

FetchCaches == {c \in [Keys -> {NoEntry, OldEntry}] : c["B"] = NoEntry}

InitFetch ==
    /\ now = DEFAULT_MAX_AGE
    /\ cache \in FetchCaches
    /\ pidfile = [n \in JobNames |-> 1]
    /\ \E in \in FetchInputs, age \in FetchMaxAges :
          jobs = [j \in Pids |->
                    IF j = 1
                    THEN [NewJob("A", in[1]) EXCEPT !.max_results = in[2],
                                                    !.max_age = age]
                    ELSE NoJob]
    /\ qs = [p \in Procs |-> IdleQ]
    /\ nq = 0
    /\ RecencyIdle

SpecFetch == InitFetch /\ [][JobStep]_vars

-----------------------------------------------------------------------------
(* Queries made for as long as the workflow is used, one at a time: every  *)
(* project keeps being queried, and a step of a query, of a job or of the  *)
(* remote that stays possible is taken in the end                          *)

\* the foreground process of the moment
LiveProcs == {1}

\* the system forgets a process that has ended
Reap(j) ==
    /\ jobs[j].st = "exit"
    /\ jobs' = [jobs EXCEPT ![j] = NoJob]
    /\ UNCHANGED <<now, cache, pidfile, qs, nq, recent, gone, rs, nr>>

Query_BeginLive(p, k) == Query_Enter(p, k) /\ nq' = nq

InitLive ==
    /\ now = DEFAULT_MAX_AGE
    /\ cache \in [Keys -> {NoEntry, OldEntry}]
    /\ pidfile = [n \in JobNames |-> 0]
    /\ jobs = [j \in Pids |-> NoJob]
    /\ qs = [p \in Procs |-> IdleQ]
    /\ nq = 0
    /\ RecencyIdle

NextLive ==
    \/ \E p \in LiveProcs, k \in Keys : Query_BeginLive(p, k)
    \/ QueryStep
    \/ JobStep
    \/ \E j \in Pids : Reap(j)

Fairness ==
    /\ \A p \in LiveProcs, k \in Keys : SF_vars(Query_BeginLive(p, k))
    /\ \A p \in LiveProcs :
          /\ WF_vars(\E t \in RemoteTotals : Query_GetTotal(p, t))
          /\ WF_vars(Query_Check(p))
          /\ WF_vars(Query_Spawn(p))
          /\ WF_vars(Query_Notify(p))
    /\ \A j \in Pids :
          /\ WF_vars(JobMain(j))
          /\ WF_vars(\E i \in 1..MaxWorkers : JobRespond(j, i, "ok"))
          /\ WF_vars(JobAwait(j))
          /\ WF_vars(JobCommit(j))
          /\ WF_vars(Reap(j))

SpecLive == InitLive /\ [][NextLive]_vars /\ Fairness

-----------------------------------------------------------------------------
(* The recency list on its own                                             *)

\* stored lists: the n most recently touched of the keys 1..9, the highest
\* or the lowest key touched last
Descending(n) == [i \in 1..n |-> n + 1 - i]

Ascending(n) == [i \in 1..n |-> i]

RecentInputs == {Descending(n) : n \in 0..Capacity} \cup {Ascending(n) : n \in 0..Capacity}

NoRecencyOp == \A o \in Procs : rs[o].pc \in {"idle", "done", "failed"}

\* add_recent called again and again, one call at a time
InitTouch ==
    /\ WorkflowIdle
    /\ recent \in RecentInputs
    /\ gone = {}
    /\ rs = [p \in Procs |-> IdleR]
    /\ nr = 0

AddRecent_ReadSeq(p, k) ==
    /\ NoRecencyOp
    /\ nr < MaxTouches
    /\ AddRecent_Read(p, k)

NextTouch ==
    \/ \E p \in Procs, k \in IssueKeys : AddRecent_ReadSeq(p, k)
    \/ \E p \in Procs : AddRecent_Write(p)

SpecTouch == InitTouch /\ [][NextTouch]_vars

\* search_for_recent over any stored list and any set of deleted issues,
\* one call at a time
InitResolve ==
    /\ WorkflowIdle
    /\ recent \in RecentInputs
    /\ gone \in SUBSET IssueKeys
    /\ rs = [p \in Procs |-> IdleR]
    /\ nr = 0

Search_ReadSeq(p) ==
    /\ NoRecencyOp
    /\ nr < MaxRecentOps
    /\ Search_Read(p)

NextResolve ==
    \/ \E p \in Procs : Search_ReadSeq(p)
    \/ \E p \in Procs : SearchStep(p)

SpecResolve == InitResolve /\ [][NextResolve]_vars

\* add_recent and search_for_recent run by processes side by side
RaceInputs == {<<>>, Descending(2), Descending(Capacity)}

RaceGone == {{}, {1}, {1, 2}}

InitRecent ==
    /\ WorkflowIdle
    /\ recent \in RaceInputs
    /\ gone \in RaceGone
    /\ rs = [p \in Procs |-> IdleR]
    /\ nr = 0

NextRecent ==
    \/ \E p \in Procs, k \in IssueKeys : nr < MaxRecentOps /\ AddRecent_Read(p, k)
    \/ \E p \in Procs : AddRecent_Write(p)
    \/ \E p \in Procs : nr < MaxRecentOps /\ Search_Read(p)
    \/ \E p \in Procs : SearchStep(p)

SpecRecent == InitRecent /\ [][NextRecent]_vars

-----------------------------------------------------------------------------
(* Properties *)

LiveJobs(k) == {j \in Pids : Alive(j) /\ jobs[j].key = k}

\* C1: at most one background update job per project key is alive at any
\* time, under any interleaving of foreground queries (as stated)
C1_AtMostOneLiveJobPerKey ==
    \A k \in Keys : Cardinality(LiveJobs(k)) <= 1

\* C2: a foreground query performs no network request, whatever the cache
\* state it finds (as stated)
C2_NoNetworkInForeground ==
    \A p \in Procs : qs[p].net = 0

AllPagesOk(j) ==
    /\ jobs[j].st = "fetch"
    /\ \A i \in 1..Len(jobs[j].reqs) : jobs[j].resp[i] = "ok"

SomePageFailed(j) ==
    /\ jobs[j].st = "fetch"
    /\ \E i \in 1..Len(jobs[j].reqs) : jobs[j].resp[i] = "fail"

\* what C3 asks of every step
CommitStep ==
    /\ \A k \in Keys :
         cache'[k] # cache[k] =>
            \E j \in Pids :
                /\ jobs[j].key = k
                /\ AllPagesOk(j)
                /\ jobs'[j].st = "exit" /\ jobs'[j].code = 0
                /\ cache'[k] = [has |-> TRUE, value |-> jobs[j].data,
                                stored_at |-> now]
    /\ \A j \in Pids :
         (SomePageFailed(j) /\ jobs'[j].st = "exit") =>
            (jobs'[j].code # 0 /\ cache' = cache)

\* C3: commit is all-or-nothing. A step changes a cache entry only when it is
\* the last step of a job of that key all of whose page requests succeeded,
\* which then exits 0 having stored its pages with the current time; and a job
\* with a failed page request ends with a non-zero exit code in a step that
\* leaves every entry (value and timestamp) as it was: once the job started
\* over a given cache has failed, the cache is still one the job can have
\* started over.
C3_CommitAllOrNothing ==
    /\ [](\A j \in Pids :
            (jobs[j].st = "exit" /\ jobs[j].code # 0) => cache \in FetchCaches)
    /\ [][CommitStep]_vars

\* C3 witness: the job over an outdated entry has ended with a failure and the
\* entry is the outdated one, value and timestamp
C3_Witness ==
    /\ jobs[1].st = "exit" /\ jobs[1].code # 0
    /\ cache["A"] = OldEntry

\* query p leaves run_in_background's liveness check in this step
LeavesCheck(p) == qs[p].pc = "check" /\ qs'[p].pc # "check"

\* C4: a foreground query on a project key that has no cache entry goes on to
\* spawn the refresh job for that key when no job for that key is alive,
\* whatever jobs of other keys exist (as stated)
C4_MissingKeySpawns ==
    [][\A p \in Procs :
          (LeavesCheck(p) /\ qs[p].found = "Missing"
                          /\ LiveJobs(qs[p].key) = {})
             => qs'[p].pc = "spawn"]_vars

\* the status section 4.5 gives for the state found at the query
ClaimedStatus(found, jobAlive) ==
    IF found = "Missing" THEN "missing"
    ELSE IF found = "Fresh" THEN "fresh"
    ELSE IF jobAlive THEN "updating" ELSE "stale"

\* the notice that shows a status of 4.5: `updating` is the updating item, a
\* cached project (stale or fresh) the active-project item, `missing` neither
ShownAs(status) ==
    IF status = "updating" THEN "updating"
    ELSE IF status = "missing" THEN "none" ELSE "active"

Spawns(p) == qs[p].pc = "spawn" /\ qs'[p].spawned = qs[p].spawned + 1

\* C6: with foreground queries made one after the other, no query starts a
\* job for a key while a job for that key is alive: the queries made while
\* the first job lives add no spawn to the first
C6_NoSpawnWhileAlive ==
    [][\A p \in Procs : Spawns(p) => LiveJobs(qs[p].key) = {}]_vars

\* C6 witness: the first query spawned the job, a later query on the same
\* non-fresh key found it alive and spawned nothing, and the job still lives
C6_Witness ==
    \E p, o \in Procs :
        /\ p # o
        /\ qs[o].pc = "done" /\ qs[o].spawned = 1
        /\ qs[p].pc = "done" /\ qs[p].key = qs[o].key
        /\ qs[p].found # "Fresh" /\ qs[p].jobFound /\ qs[p].spawned = 0
        /\ Cardinality(LiveJobs(qs[p].key)) = 1

\* C7: while a job for another key is alive and none for its own key, a
\* foreground query on a non-fresh key still goes on to spawn (as stated)
C7_OtherKeySpawns ==
    [][\A p \in Procs :
          (/\ LeavesCheck(p)
           /\ LiveJobs(qs[p].key) = {}
           /\ \E k \in Keys \ {qs[p].key} : LiveJobs(k) # {})
             => qs'[p].pc = "spawn"]_vars

RECURSIVE PagesAscending(_, _, _)
\* the pages of the offsets in S, lowest offset first
PagesAscending(S, max_results, count) ==
    IF S = {} THEN <<>>
    ELSE LET o == CHOOSE x \in S : \A y \in S : x <= y
         IN  Page(o, max_results, count)
                \o PagesAscending(S \ {o}, max_results, count)

Requested(j) == {jobs[j].reqs[i] : i \in 1..Len(jobs[j].reqs)}

\* C8: when get_all_issues has joined every page, its records are the pages
\* in ascending offset order, in whatever order the requests completed
C8_AscendingOffsetOrder ==
    \A j \in Pids :
        (jobs[j].st = "fetch" /\ jobs[j].wait = 0) =>
            jobs[j].data = PagesAscending(Requested(j), jobs[j].max_results,
                                          jobs[j].total)

\* C8 witness: total 125 in pages of 50, the page at offset 100 completed
\* first, and all three pages are joined
C8_Witness ==
    /\ jobs[1].st = "fetch" /\ jobs[1].wait = 0
    /\ jobs[1].total = 125 /\ jobs[1].max_results = 50
    /\ jobs[1].first = 3
    /\ Len(jobs[1].data) = 125

\* the offsets 0, page_size, 2*page_size, ... below total
OffsetsBelow(total, page_size) ==
    {o \in 0..total : o % page_size = 0 /\ o < total}

\* C9 (as stated): a refresh issues exactly one request for each offset in
\* {0, page_size, 2*page_size, ...} smaller than total, and no other
C9_RequestsBelowTotal ==
    \A j \in Pids :
        jobs[j].st = "fetch" =>
            /\ Requested(j) = OffsetsBelow(jobs[j].total, jobs[j].max_results)
            /\ Len(jobs[j].reqs) = Cardinality(Requested(j))

\* C9 (amended): a refresh issues exactly one request for offset 0 and for
\* each further offset in {page_size, 2*page_size, ...} smaller than total,
\* and no other; total = 0 still gives the request for offset 0
C9_RequestsFromZero ==
    \A j \in Pids :
        jobs[j].st = "fetch" =>
            /\ Requested(j) =
                 {0} \cup OffsetsBelow(jobs[j].total, jobs[j].max_results)
            /\ Len(jobs[j].reqs) = Cardinality(Requested(j))

\* C9 witness: total 125 in pages of 50 gives the requests 0, 50, 100
C9_Witness ==
    /\ jobs[1].st = "fetch"
    /\ jobs[1].total = 125 /\ jobs[1].max_results = 50
    /\ jobs[1].reqs = <<0, 50, 100>>

\* C10: an existing entry is treated as fresh exactly when its age is below
\* max_age and as stale exactly when it is not, and only a key without an
\* entry is treated as missing (as stated)
C10_ClassifiedByAge ==
    \A k \in Keys : Classify(k) = Evaluate(k)

\* C11: a foreground query that found a fresh entry goes straight to its
\* output: it sends no request and starts no process, and none of its steps
\* changes a cache entry (value or timestamp) or a job
C11_FreshNeverSpawns ==
    /\ [](\A p \in Procs :
            qs[p].found = "Fresh" =>
                /\ qs[p].pc \in {"notify", "done"}
                /\ qs[p].spawned = 0 /\ qs[p].net = 0)
    /\ [][\A p \in Procs :
            (qs'[p] # qs[p] /\ qs'[p].found = "Fresh") =>
                (cache' = cache /\ jobs' = jobs /\ pidfile' = pidfile)]_vars

\* C11 witness: a finished query on a fresh entry, which is still the entry
\* it found, and no process was ever started
C11_Witness ==
    \E p \in Procs :
        /\ qs[p].pc = "done" /\ qs[p].found = "Fresh"
        /\ qs[p].key = "A" /\ cache["A"] = OldEntry
        /\ qs[p].issues = OldEntry.value
        /\ \A j \in Pids : jobs[j].st = "none"

\* C12: a job that died is reported as not running, and a query that reaches
\* run_in_background when no job is alive goes on to spawn, whatever dead
\* jobs left behind
C12_DeadJobNotRunning ==
    /\ [](\A n \in JobNames : is_running(n) => Alive(pidfile[n]))
    /\ [][\A p \in Procs :
            (LeavesCheck(p) /\ \A j \in Pids : ~Alive(j))
               => qs'[p].pc = "spawn"]_vars

\* C12 witness: the first job was killed before it ended, and the query made
\* afterwards on the same key, still not fresh, has started the second job
C12_Witness ==
    \E p, o \in Procs :
        /\ p # o
        /\ jobs[1].st = "exit" /\ jobs[1].code = -9
        /\ qs[o].pc = "done" /\ qs[o].spawned = 1
        /\ qs[p].pc = "done" /\ qs[p].spawned = 1 /\ qs[p].key = qs[o].key
        /\ qs[p].found # "Fresh" /\ ~qs[p].jobFound
        /\ Alive(2) /\ jobs[2].key = qs[p].key /\ pidfile[JobName(qs[p].key)] = 2

\* C13: a failure to start the refresh, the total-count lookup included,
\* does not fail the query (as stated)
C13_QueryNeverFails ==
    \A p \in Procs : qs[p].pc # "failed"

\* C15: a live job is never left waiting on the remote alone: whenever it is
\* alive one of its own steps (main, the wait for a page, the commit) can be
\* taken, an unanswered request counting as failed after a timeout (as stated)
C15_JobNeverBlocked ==
    \A j \in Pids :
        Alive(j) => ENABLED (JobMain(j) \/ JobAwait(j) \/ JobCommit(j))

\* C16: a job's main always fetches, and a job that exits 0 has in that step
\* stored the pages it fetched with the current time, whatever the age of
\* the entry and whatever its max-age argument (as stated)
C16_JobAlwaysFetches ==
    [][\A j \in Pids :
          /\ (jobs[j].st = "start" /\ jobs'[j].st # "start" /\ jobs'[j].code # -9)
                => jobs'[j].st = "fetch"
          /\ (Alive(j) /\ jobs'[j].st = "exit" /\ jobs'[j].code = 0)
                => cache'[jobs[j].key] =
                      [has |-> TRUE, value |-> jobs[j].data, stored_at |-> now]
      ]_vars

\* the key, then the list without the key in the list's order, cut to the
\* first 9 entries
KeyThenRest(L, k) ==
    LET M == <<k>> \o SelectSeq(L, LAMBDA x : x # k)
    IN  SubSeq(M, 1, Min(Capacity, Len(M)))

\* C17: for every stored list L and key k, add_recent(k) stores k followed
\* by L without k, cut to its first 9 entries
C17_AddRecentMovesToFront ==
    [][\A p \in Procs :
          (rs[p].pc = "write" /\ rs'[p].pc = "done")
             => recent' = KeyThenRest(recent, rs[p].key)]_vars

\* C17 witness: a 10th distinct key was touched on a full list: the stored
\* list still has 9 entries and lost exactly the least recently touched key
C17_Witness ==
    \E p \in Procs :
        /\ rs[p].pc = "done" /\ rs[p].op = "add"
        /\ rs[p].read = Descending(Capacity) /\ rs[p].key = Capacity + 1
        /\ recent = <<Capacity + 1>> \o SubSeq(rs[p].read, 1, Capacity - 1)
        /\ Len(recent) = Capacity /\ ~Contains(recent, rs[p].read[Capacity])

NoDuplicates(L) == \A i, j \in 1..Len(L) : i # j => L[i] # L[j]

\* C18: under any interleaving of add_recent and search_for_recent the
\* stored list has at most 9 entries and holds no key twice
C18_BoundedNoDuplicates ==
    Len(recent) <= Capacity /\ NoDuplicates(recent)

\* C18 witness: two add_recent calls read the same full list, one with a
\* new key and one with a key of the list, and both have stored
C18_Witness ==
    \E p, o \in Procs :
        /\ p # o
        /\ rs[p].pc = "done" /\ rs[p].op = "add"
        /\ rs[o].pc = "done" /\ rs[o].op = "add"
        /\ rs[p].read = Descending(Capacity) /\ rs[o].read = rs[p].read
        /\ ~Contains(rs[p].read, rs[p].key) /\ Contains(rs[o].read, rs[o].key)
        /\ Len(recent) = Capacity

\* the keys of a list that still resolve, in the list's order
Resolvable(L) == SelectSeq(L, get_issue)

\* C19: for every stored list and every set of keys that no longer resolve,
\* search_for_recent ends by returning the resolvable issues in the list's
\* order, and the stored list is then exactly the resolvable keys (as stated)
C19_PrunesExactlyTheFailed ==
    \A p \in Procs :
        (rs[p].op = "search" /\ rs[p].pc \in {"done", "failed"}) =>
            /\ rs[p].pc = "done"
            /\ rs[p].out = Resolvable(rs[p].read)
            /\ recent = Resolvable(rs[p].read)

\* C20: a key of the stored list that still resolves leaves the list only
\* as the last entry of a full list, pushed out by a new key (as stated)
C20_NoTouchLost ==
    [][\A k \in IssueKeys :
          (Contains(recent, k) /\ ~Contains(recent', k)) =>
              \/ ~get_issue(k)
              \/ /\ Len(recent) = Capacity /\ recent[Capacity] = k
                 /\ Len(recent') = Capacity]_vars

\* a step in which a refresh cycle fails: the total-count lookup or the
\* spawn fails, a page request fails, the job dies
FailStep ==
    \/ \E p \in Procs : Query_GetTotalFails(p) \/ Query_SpawnFails(p)
    \/ \E j \in Pids : JobCrash(j) \/ \E i \in 1..MaxWorkers : JobRespond(j, i, "fail")

\* C14: when every project keeps being queried and from some cycle on the
\* requests succeed, a project whose entry is not fresh gets a fresh entry,
\* whatever cycles failed before
C14_EventuallyFresh ==
    (<>[][~FailStep]_vars) =>
        \A k \in Keys : (Evaluate(k) # "Fresh") ~> (Evaluate(k) = "Fresh")

\* C14 witness: one job has failed on a page, a job started by a later query
\* has committed, and the entry it stored is fresh
C14_Witness ==
    /\ jobs[1].st = "exit" /\ jobs[1].code = 1
    /\ jobs[2].st = "exit" /\ jobs[2].code = 0
    /\ pidfile[JobName("A")] = 2
    /\ \E p \in LiveProcs :
          qs[p].pc = "done" /\ qs[p].key = "A" /\ qs[p].found = "Fresh"
    /\ cache["B"] = NoEntry
    /\ cache["A"].has /\ cache["A"].stored_at = now
    /\ Evaluate("A") = "Fresh"

=============================================================================
